---- MODULE Spec2Model ----
(***************************************************************************)
(* Job tracker backend: the Redis-backed job service with its status       *)
(* index (services/job.service.ts over services/redis.service.ts) and the  *)
(* AI response cache of the knowledge extraction / research services.      *)
(***************************************************************************)
EXTENDS Integers, FiniteSets, Sequences, TLC

\* ------------------------------------------------------------------ bounds
MaxJobs == 2      \* number of ids uuidv4() hands out in a run
MaxClock == 2     \* readings 0..MaxClock of the system clock
NumProcs == 2     \* asynchronous requests that can be in flight
MaxFaults == 1    \* store calls that fail in a run
MaxOverlaps == 1  \* calls that start while another call is in flight
CacheExpiryTicks == 1  \* AI_CACHE_EXPIRY_DAYS, in readings of the modelled clock
MaxKeyLen == 2    \* length of the strings cache keys are derived from
MaxConfigAttempts == 4    \* largest maxAttempts of a retry configuration
MaxConfigDelay == 3       \* largest initialDelayMs and maxDelayMs of a configuration
MaxConfigMultiplier == 2  \* largest backoffMultiplier of a configuration
MaxPage == 3      \* largest page asked of getAllJobs
MaxLimit == 3     \* largest of the small limits asked of getAllJobs
MaxItems == 4     \* largest of the small numbers of stored job documents
MaxRows == 2      \* rows of an imported CSV file
MaxOps == 3       \* operations run in a row on both job services

JobIds == 1..MaxJobs
Procs == 1..NumProcs
Times == 0..MaxClock

\* JobStatus (types/job.types.ts)
Statuses == {"Pending", "Reject", "Interview", "Hired"}
\* values of one non-status field of a job (notes)
NoteValues == {"n1", "n2"}
\* a key that is missing from a DTO
Absent == "absent"

\* CreateJobDTO: every field present
CreateJobDTO == [status : Statuses, notes : NoteValues]
\* UpdateJobDTO = Partial<CreateJobDTO>
UpdateJobDTO == [status : Statuses \cup {Absent}, notes : NoteValues \cup {Absent}]
\* the DTOs that differ in status only
StatusCreateDTO == [status : Statuses, notes : {"n1"}]
StatusUpdateDTO == [status : Statuses \cup {Absent}, notes : {Absent}]

\* a job created as Pending, and the updates that move a job between two statuses
PendingCreateDTO == [status : {"Pending"}, notes : {"n1"}]
MoveUpdateDTO == [status : {"Pending", "Hired"}, notes : {Absent}]

\* the value null of `Job | null`
NullJob == [id |-> 0, status |-> "null", notes |-> "null", createdAt |-> 0, updatedAt |-> 0]
NoData == [status |-> Absent, notes |-> Absent]

\* ------------------------------------------------------- redis.service.ts
\* the reply of GET on a key that does not exist
NilString == <<>>

\* JSON.stringify(job): the stored string, field by field
JSONstringify(job) == <<job.id, job.status, job.notes, job.createdAt, job.updatedAt>>

\* JSON.parse(jobString) as Job
JSONparse(s) ==
  [id |-> s[1], status |-> s[2], notes |-> s[3], createdAt |-> s[4], updatedAt |-> s[5]]

\* setJob: redisClient.set(`job:${id}`, JSON.stringify(job))
setJob(keys, id, job) == [keys EXCEPT ![id] = JSONstringify(job)]

\* getJob: null when the key is missing (or the client call fails), else the parsed job
getJob(keys, id, ok) ==
  IF ~ok THEN NullJob
  ELSE IF keys[id] = NilString THEN NullJob
  ELSE JSONparse(keys[id])

\* a deleteJobKey that leaves the key in place
deleteJobKey_skip(keys, id) == keys

\* deleteJobKey: redisClient.del(`job:${id}`)
deleteJobKey(keys, id) == [keys EXCEPT ![id] = NilString]

\* addToSet: redisClient.sAdd(setKey, value)
addToSet(set, value) == set \cup {value}

\* a removeFromSet that removes nothing
removeFromSet_keeps(set, value) == set

\* removeFromSet: redisClient.sRem(setKey, value)
removeFromSet(set, value) == set \ {value}

\* getSetMembers: redisClient.sMembers(setKey)
getSetMembers(set) == set

\* --------------------------------------------- knowledge services: data
\* Strings are sequences of characters.
UpperCase == <<"A", "B", "C", "D", "E", "F", "G", "H", "I", "J", "K", "L", "M", "N", "O", "P", "Q", "R", "S", "T", "U", "V", "W", "X", "Y", "Z">>
LowerCase == <<"a", "b", "c", "d", "e", "f", "g", "h", "i", "j", "k", "l", "m", "n", "o", "p", "q", "r", "s", "t", "u", "v", "w", "x", "y", "z">>

\* String.prototype.toLowerCase
toLowerCase(str) ==
  [i \in 1..Len(str) |->
     IF \E k \in 1..Len(UpperCase) : UpperCase[k] = str[i]
       THEN LowerCase[CHOOSE k \in 1..Len(UpperCase) : UpperCase[k] = str[i]]
       ELSE str[i]]

\* request inputs
KnowledgeItems == {<<>>, <<"a">>, <<"A">>}
ProficiencyLevels == {<<"b">>}
JobTitles == {<<"t">>}
JobRequirements == {<<"r">>}
JobDescriptions == {<<"d">>}
JobRefs == {"undefined", "j1"}
NoString == <<>>

\* KnowledgeExtractionInput
KnowledgeExtractionInput ==
  [service : {"extraction"}, jobTitle : JobTitles, requirements : JobRequirements,
   jobDescription : JobDescriptions, jobId : JobRefs,
   knowledgeItem : {NoString}, proficiencyLevel : {NoString}, forceRefresh : BOOLEAN]

\* KnowledgeResearchInput
KnowledgeResearchInput ==
  [service : {"research"}, jobTitle : {NoString}, requirements : {NoString},
   jobDescription : {NoString}, jobId : {"undefined"},
   knowledgeItem : KnowledgeItems, proficiencyLevel : ProficiencyLevels,
   forceRefresh : BOOLEAN]

NoInput ==
  [service |-> "none", jobTitle |-> NoString, requirements |-> NoString,
   jobDescription |-> NoString, jobId |-> "undefined", knowledgeItem |-> NoString,
   proficiencyLevel |-> NoString, forceRefresh |-> FALSE]

\* the texts the remote model answers with (trimmed, never empty)
Payloads == {"text1", "text2"}
\* the value null of `string | null`
NoContent == "null"

\* crypto.createHash('sha256').update(content).digest('hex'): one digest per content
sha256hex(content) == <<"sha256">> \o content

\* generateInputHash: the digest of `${jobTitle}|${requirements}|${jobDescription}`
generateInputHash(input) ==
  sha256hex(input.jobTitle \o <<"|">> \o input.requirements \o <<"|">> \o input.jobDescription)

\* an extraction key that also depends on the job the request is linked to
extractionCacheKey_perJob(input) ==
  <<"extraction", ":">> \o generateInputHash(input) \o <<input.jobId>>

\* extractKnowledgeRequirements line 58: `extraction:${inputHash}`
extractionCacheKey(input) == <<"extraction", ":">> \o generateInputHash(input)

\* a research key made of the strings as they were typed
researchCacheKey_asTyped(input) ==
  <<"research", ":">> \o input.knowledgeItem \o <<":">> \o input.proficiencyLevel

\* researchKnowledge line 138:
\* `research:${knowledgeItem.toLowerCase()}:${proficiencyLevel.toLowerCase()}`
researchCacheKey(input) ==
  <<"research", ":">> \o toLowerCase(input.knowledgeItem) \o <<":">>
     \o toLowerCase(input.proficiencyLevel)

\* the cache key and cache type of a request
cacheKeyOf(input) ==
  IF input.service = "extraction" THEN extractionCacheKey(input) ELSE researchCacheKey(input)

cacheTypeOf(input) ==
  IF input.service = "extraction" THEN "knowledge-extraction" ELSE "knowledge-research"

\* the input validation at the head of both services: an empty string is falsy
missingFields(input) ==
  IF input.service = "extraction"
    THEN input.jobTitle = <<>> \/ input.requirements = <<>> \/ input.jobDescription = <<>>
    ELSE input.knowledgeItem = <<>> \/ input.proficiencyLevel = <<>>

\* RETRY_CONFIG
maxAttempts == 3
initialDelayMs == 1000
maxDelayMs == 10000
backoffMultiplier == 2

Min(a, b) == IF a < b THEN a ELSE b

\* RETRY_CONFIG as shipped
RETRY_CONFIG ==
  [maxAttempts |-> maxAttempts, initialDelayMs |-> initialDelayMs,
   maxDelayMs |-> maxDelayMs, backoffMultiplier |-> backoffMultiplier]

\* a backoff without its ceiling
nextDelayFor_uncapped(config, delay) == delay * config.backoffMultiplier

\* withRetry line 97: Math.min(delay * backoffMultiplier, maxDelayMs)
nextDelayFor(config, delay) ==
  Min(delay * config.backoffMultiplier, config.maxDelayMs)

\* withRetry line 97: the delay after the one just slept
nextDelay(delay) == nextDelayFor(RETRY_CONFIG, delay)

\* the messages of the errors an attempt of the remote call throws
RetryableErrors == {"503 overloaded"}
ModelNotFoundErrors == {"404 not found"}
RemoteErrors == RetryableErrors \cup ModelNotFoundErrors

\* the Error object an attempt throws: its message, and the attempt that threw it
ErrorOf(message, attempt) == [message |-> message, attempt |-> attempt]
\* the value null of `Error | null`
NoError == [message |-> "null", attempt |-> 0]

\* ServiceResponse
NoResult == [success |-> FALSE, fromCache |-> "absent", content |-> NoContent, error |-> "none"]
Success(content, fromCache) ==
  [success |-> TRUE, fromCache |-> fromCache, content |-> content, error |-> "none"]

\* a catch block that answers with its fallback text whatever was thrown
Failure_fallback(message) ==
  [success |-> FALSE, fromCache |-> "absent", content |-> NoContent,
   error |-> "Failed to extract knowledge requirements"]

\* the catch block: error instanceof Error ? error.message : fallback text
Failure(message) ==
  [success |-> FALSE, fromCache |-> "absent", content |-> NoContent, error |-> message]

\* a 404 check that never matches
isModelNotFound_never(error) == FALSE

\* withRetry line 76: the message contains '404' or 'not found'
isModelNotFound(error) == error.message \in ModelNotFoundErrors

\* a loop that gives up one attempt late
isLastAttempt_late(attempt) == attempt > maxAttempts

\* withRetry line 86: attempt === RETRY_CONFIG.maxAttempts
isLastAttempt(attempt) == attempt = maxAttempts

\* getCacheExpiryDate: now plus the configured retention
getCacheExpiryDate(now) == now + CacheExpiryTicks

\* a filter that also accepts the entry expiring right now
notExpired_inclusive(entry, now) == entry.expiresAt >= now

\* checkCache: expiresAt: { $gt: new Date() }
notExpired(entry, now) == entry.expiresAt > now

\* checkCache: findOne({cacheKey, cacheType, expiresAt > now}); a failing lookup is null
checkCache(docs, cacheKey, cacheType, now, ok) ==
  LET found == { e \in docs : /\ e.cacheKey = cacheKey
                              /\ e.cacheType = cacheType
                              /\ notExpired(e, now) }
  IN IF ~ok \/ found = {} THEN NoContent
     ELSE (CHOOSE e \in found : TRUE).responseContent

\* the document saveToCache writes for a request
cacheDocument(input, cacheKey, content, now) ==
  [cacheType |-> cacheTypeOf(input), cacheKey |-> cacheKey,
   inputHash |-> IF input.service = "extraction" THEN generateInputHash(input) ELSE NoString,
   jobId |-> input.jobId,
   knowledgeItem |-> input.knowledgeItem, proficiencyLevel |-> input.proficiencyLevel,
   responseContent |-> content, expiresAt |-> getCacheExpiryDate(now)]

\* a save that inserts a new document whatever is stored under the key
saveToCache_insert(docs, input, cacheKey, content, now) ==
  docs \cup {cacheDocument(input, cacheKey, content, now)}

\* an upsert that writes on insert only and leaves a stored entry as it is
saveToCache_setOnInsert(docs, input, cacheKey, content, now) ==
  IF \E e \in docs : e.cacheKey = cacheKey
    THEN docs
    ELSE docs \cup {cacheDocument(input, cacheKey, content, now)}

\* saveToCache: findOneAndUpdate({cacheKey}, {$set: ...}, {upsert: true}); a field
\* whose $set value is undefined (jobId of a request without one) stays as stored
saveToCache(docs, input, cacheKey, content, now) ==
  LET matching == { e \in docs : e.cacheKey = cacheKey }
      target == CHOOSE e \in matching : TRUE
      written == cacheDocument(input, cacheKey, content, now)
  IN IF matching = {}
       THEN docs \cup {written}
       ELSE (docs \ {target}) \cup
              {IF input.jobId = "undefined"
                 THEN [written EXCEPT !.jobId = target.jobId]
                 ELSE written}

NoEntry == [responseContent |-> NoContent, expiresAt |-> 0]

IdleKReq ==
  [pc |-> "idle", input |-> NoInput, cacheKey |-> NoString, now |-> 0,
   attempt |-> 0, delay |-> 0, sleeps |-> <<>>, lastError |-> NoError,
   content |-> NoContent,
   persisted |-> "no", lookup |-> "none", result |-> NoResult,
   atCall |-> NoEntry, seen |-> NoEntry]

\* no pure function evaluated yet
NoCalc == [fn |-> "none", args |-> <<>>, out |-> <<>>]

\* ------------------------------------------------------------------ state
VARIABLES
  jobKeys,       \* Redis strings job:<id>
  jobsAll,       \* Redis set jobs:all
  jobsByStatus,  \* Redis sets jobs:status:<status>
  nextId,        \* ids handed out so far by uuidv4(), plus one
  clock,         \* the reading new Date() returns now
  proc,          \* the calls in flight: position and local variables
  faults,        \* store calls that have failed so far
  overlaps,      \* calls started so far while another call was in flight
  deleted,       \* history: the ids for which deleteJob has returned true
  cache,         \* the documents of the AIResponseCache collection
  kreq,          \* the knowledge requests in flight: position and local variables
  calc           \* the pure function last evaluated: its arguments and its value

jobVars == <<jobKeys, jobsAll, jobsByStatus, nextId, proc, deleted>>
\* everything but the evaluation of a pure function
storeVars == <<jobVars, clock, faults, overlaps, cache, kreq>>
vars == <<jobKeys, jobsAll, jobsByStatus, nextId, clock, proc, faults, overlaps, deleted,
          cache, kreq, calc>>

IdleProc ==
  [op |-> "none", pc |-> "idle", id |-> 0, data |-> NoData,
   existingJob |-> NullJob, job |-> NullJob,
   statusChanged |-> FALSE, oldStatus |-> "null", result |-> "none", error |-> "none"]

Init ==
  /\ jobKeys = [i \in JobIds |-> NilString]
  /\ jobsAll = {}
  /\ jobsByStatus = [s \in Statuses |-> {}]
  /\ nextId = 1
  /\ clock = 0
  /\ proc = [p \in Procs |-> IdleProc]
  /\ faults = 0
  /\ overlaps = 0
  /\ deleted = {}
  /\ cache = {}
  /\ kreq = [p \in Procs |-> IdleKReq]
  /\ calc = NoCalc

\* a call is in flight
InFlight(p) == proc[p].pc \notin {"idle", "done"}

\* Which calls may start while others are in flight:
\*   "seq"  operations run one at a time
\*   "conc" updateJob calls on one job overlap each other
\*   "race" updateJob and deleteJob calls on one job overlap each other
\* Request slots are interchangeable: a call takes the lowest free one.
CanStart(p, op, id, mode) ==
  /\ ~InFlight(p)
  /\ \A q \in Procs : q < p => InFlight(q)
  /\ \A q \in Procs \ {p} :
       InFlight(q) =>
         \/ mode = "conc" /\ op = "update" /\ proc[q].op = "update" /\ proc[q].id = id
         \/ /\ mode = "race" /\ proc[q].id = id
            /\ {op, proc[q].op} \subseteq {"update", "delete"}

\* p starts a call with local variables `locals`; the responses of the calls that
\* have returned are delivered
Begin(p, locals) ==
  [q \in Procs |-> IF q = p THEN locals
                   ELSE IF InFlight(q) THEN proc[q] ELSE IdleProc]

\* a call is admitted: it counts as an overlap when another call is in flight
Admit(p) ==
  /\ IF \E q \in Procs \ {p} : InFlight(q)
       THEN overlaps < MaxOverlaps /\ overlaps' = overlaps + 1
       ELSE overlaps' = overlaps
  /\ UNCHANGED <<faults, deleted, cache, kreq, calc>>

\* a store call is accounted: a failing one uses up the fault budget; the ids
\* deleteJob has returned true for are remembered
Account(p, ok) ==
  /\ IF ok THEN faults' = faults ELSE faults < MaxFaults /\ faults' = faults + 1
  /\ overlaps' = overlaps
  /\ deleted' = IF proc'[p].op = "delete" /\ proc'[p].result = "true"
                  THEN deleted \cup {proc'[p].id} ELSE deleted
  /\ UNCHANGED <<cache, kreq, calc>>

\* the system clock advances
Tick ==
  /\ clock < MaxClock
  /\ clock' = clock + 1
  /\ UNCHANGED <<jobKeys, jobsAll, jobsByStatus, nextId, proc, faults, overlaps, deleted,
                 cache, kreq, calc>>

\* ------------------------------------------------------- job.service.ts
\* the messages of the errors redis.service.ts throws
SetJobError == "Failed to store job in Redis"
DeleteKeyError == "Failed to delete job from Redis"
AddToSetError == "Failed to add to Redis set"
RemoveFromSetError == "Failed to remove from Redis set"

\* the catch block of every operation: log and rethrow, wrapping the message
Throw(p, message) ==
  [proc EXCEPT ![p].pc = "done", ![p].result = "error", ![p].error = message]

\* createJob, lines 19-29: id, now, and the job object
newJob(id, data, now) ==
  [id |-> id, status |-> data.status, notes |-> data.notes,
   createdAt |-> now, updatedAt |-> now]

createJobCall(p, data, mode) ==
  /\ CanStart(p, "create", nextId, mode)
  /\ nextId <= MaxJobs
  /\ nextId' = nextId + 1
  /\ proc' = Begin(p,
       [IdleProc EXCEPT !.op = "create", !.pc = "c_setJob", !.id = nextId,
                        !.data = data, !.job = newJob(nextId, data, clock)])
  /\ UNCHANGED <<jobKeys, jobsAll, jobsByStatus, clock>>
  /\ Admit(p)

\* createJob line 33: await redisService.setJob(id, job)
createJobSetJob(p, ok) ==
  /\ proc[p].pc = "c_setJob"
  /\ IF ok
       THEN /\ jobKeys' = setJob(jobKeys, proc[p].id, proc[p].job)
            /\ proc' = [proc EXCEPT ![p].pc = "c_addAll"]
       ELSE /\ jobKeys' = jobKeys
            /\ proc' = Throw(p, SetJobError)
  /\ UNCHANGED <<jobsAll, jobsByStatus, nextId, clock>>
  /\ Account(p, ok)

\* createJob line 36: await redisService.addToSet(RedisKeys.allJobs(), id)
createJobAddAll(p, ok) ==
  /\ proc[p].pc = "c_addAll"
  /\ IF ok
       THEN /\ jobsAll' = addToSet(jobsAll, proc[p].id)
            /\ proc' = [proc EXCEPT ![p].pc = "c_addStatus"]
       ELSE /\ jobsAll' = jobsAll
            /\ proc' = Throw(p, AddToSetError)
  /\ UNCHANGED <<jobKeys, jobsByStatus, nextId, clock>>
  /\ Account(p, ok)

\* a createJob that files every new job under the default status
createStatusKey_default(job) == "Pending"

\* the status set createJob files the new job under
createStatusKey(job) == job.status

\* createJob lines 39-41: addToSet(RedisKeys.jobsByStatus(job.status), id); return job
createJobAddStatus(p, ok) ==
  /\ proc[p].pc = "c_addStatus"
  /\ IF ok
       THEN /\ jobsByStatus' =
                 [jobsByStatus EXCEPT ![createStatusKey(proc[p].job)] =
                    addToSet(@, proc[p].id)]
            /\ proc' = [proc EXCEPT ![p].pc = "done", ![p].result = "job"]
       ELSE /\ jobsByStatus' = jobsByStatus
            /\ proc' = Throw(p, AddToSetError)
  /\ UNCHANGED <<jobKeys, jobsAll, nextId, clock>>
  /\ Account(p, ok)

\* updateJob(id, data) is called
updateJobCall(p, id, data, mode) ==
  /\ CanStart(p, "update", id, mode)
  /\ proc' = Begin(p,
       [IdleProc EXCEPT !.op = "update", !.pc = "u_getJob", !.id = id, !.data = data])
  /\ UNCHANGED <<jobKeys, jobsAll, jobsByStatus, nextId, clock>>
  /\ Admit(p)

\* a check that takes every update carrying a status for a change of status
statusChangedOf_anyStatus(data, existingJob) == data.status # Absent

\* updateJob line 104: data.status && data.status !== existingJob.status
statusChangedOf(data, existingJob) ==
  data.status # Absent /\ data.status # existingJob.status

\* an oldStatus read from the merged job instead of the snapshot
oldStatusOf_merged(existingJob, updatedJob) == updatedJob.status

\* updateJob line 105: const oldStatus = existingJob.status
oldStatusOf(existingJob, updatedJob) == existingJob.status

\* a merge that takes the status from the DTO and nothing else
mergeJob_statusOnly(existingJob, data, now) ==
  [id |-> existingJob.id,
   status |-> IF data.status = Absent THEN existingJob.status ELSE data.status,
   notes |-> existingJob.notes,
   createdAt |-> existingJob.createdAt, updatedAt |-> now]

\* updateJob lines 108-112: { ...existingJob, ...data, updatedAt: new Date().toISOString() }
mergeJob(existingJob, data, now) ==
  [id |-> existingJob.id,
   status |-> IF data.status = Absent THEN existingJob.status ELSE data.status,
   notes |-> IF data.notes = Absent THEN existingJob.notes ELSE data.notes,
   createdAt |-> existingJob.createdAt,
   updatedAt |-> now]

\* an updateJob that goes on to write when there is no job to update
updateJobGetJob_upserts(p, ok) ==
  /\ proc[p].pc = "u_getJob"
  /\ LET existing == getJob(jobKeys, proc[p].id, ok)
         updated == mergeJob([existing EXCEPT !.id = proc[p].id], proc[p].data, clock)
     IN proc' = [proc EXCEPT ![p].pc = "u_setJob",
                             ![p].existingJob = existing,
                             ![p].job = updated]
  /\ UNCHANGED <<jobKeys, jobsAll, jobsByStatus, nextId, clock>>
  /\ Account(p, ok)

\* updateJob lines 97-112: read the job; not found => null; else merge
updateJobGetJob(p, ok) ==
  /\ proc[p].pc = "u_getJob"
  /\ LET existing == getJob(jobKeys, proc[p].id, ok)
         updated == mergeJob(existing, proc[p].data, clock)
     IN IF existing = NullJob
          THEN proc' = [proc EXCEPT ![p].pc = "done", ![p].result = "null"]
          ELSE proc' = [proc EXCEPT ![p].pc = "u_setJob",
                                    ![p].existingJob = existing,
                                    ![p].statusChanged = statusChangedOf(proc[p].data, existing),
                                    ![p].oldStatus = oldStatusOf(existing, updated),
                                    ![p].job = updated]
  /\ UNCHANGED <<jobKeys, jobsAll, jobsByStatus, nextId, clock>>
  /\ Account(p, ok)

\* updateJob lines 115-118: setJob(id, updatedJob); index work only on a status change
updateJobSetJob(p, ok) ==
  /\ proc[p].pc = "u_setJob"
  /\ IF ok
       THEN /\ jobKeys' = setJob(jobKeys, proc[p].id, proc[p].job)
            /\ proc' = IF proc[p].statusChanged
                         THEN [proc EXCEPT ![p].pc = "u_removeOld"]
                         ELSE [proc EXCEPT ![p].pc = "done", ![p].result = "job"]
       ELSE /\ jobKeys' = jobKeys
            /\ proc' = Throw(p, SetJobError)
  /\ UNCHANGED <<jobsAll, jobsByStatus, nextId, clock>>
  /\ Account(p, ok)

\* updateJob line 120: removeFromSet(RedisKeys.jobsByStatus(oldStatus), id)
updateJobRemoveOld(p, ok) ==
  /\ proc[p].pc = "u_removeOld"
  /\ IF ok
       THEN /\ jobsByStatus' =
                 [jobsByStatus EXCEPT ![proc[p].oldStatus] = removeFromSet(@, proc[p].id)]
            /\ proc' = [proc EXCEPT ![p].pc = "u_addNew"]
       ELSE /\ jobsByStatus' = jobsByStatus
            /\ proc' = Throw(p, RemoveFromSetError)
  /\ UNCHANGED <<jobKeys, jobsAll, nextId, clock>>
  /\ Account(p, ok)

\* updateJob lines 122-125: addToSet(RedisKeys.jobsByStatus(data.status), id); return
updateJobAddNew(p, ok) ==
  /\ proc[p].pc = "u_addNew"
  /\ IF ok
       THEN /\ jobsByStatus' =
                 [jobsByStatus EXCEPT ![proc[p].data.status] = addToSet(@, proc[p].id)]
            /\ proc' = [proc EXCEPT ![p].pc = "done", ![p].result = "job"]
       ELSE /\ jobsByStatus' = jobsByStatus
            /\ proc' = Throw(p, AddToSetError)
  /\ UNCHANGED <<jobKeys, jobsAll, nextId, clock>>
  /\ Account(p, ok)

\* deleteJob(id) is called
deleteJobCall(p, id, mode) ==
  /\ CanStart(p, "delete", id, mode)
  /\ proc' = Begin(p,
       [IdleProc EXCEPT !.op = "delete", !.pc = "d_getJob", !.id = id])
  /\ UNCHANGED <<jobKeys, jobsAll, jobsByStatus, nextId, clock>>
  /\ Admit(p)

\* deleteJob lines 140-144: read the job for its status; not found => false
deleteJobGetJob(p, ok) ==
  /\ proc[p].pc = "d_getJob"
  /\ LET existing == getJob(jobKeys, proc[p].id, ok)
     IN IF existing = NullJob
          THEN proc' = [proc EXCEPT ![p].pc = "done", ![p].result = "false"]
          ELSE proc' = [proc EXCEPT ![p].pc = "d_deleteKey", ![p].existingJob = existing]
  /\ UNCHANGED <<jobKeys, jobsAll, jobsByStatus, nextId, clock>>
  /\ Account(p, ok)

\* deleteJob line 147: deleteJobKey(id)
deleteJobDeleteKey(p, ok) ==
  /\ proc[p].pc = "d_deleteKey"
  /\ IF ok
       THEN /\ jobKeys' = deleteJobKey(jobKeys, proc[p].id)
            /\ proc' = [proc EXCEPT ![p].pc = "d_removeAll"]
       ELSE /\ jobKeys' = jobKeys
            /\ proc' = Throw(p, DeleteKeyError)
  /\ UNCHANGED <<jobsAll, jobsByStatus, nextId, clock>>
  /\ Account(p, ok)

\* deleteJob line 150: removeFromSet(RedisKeys.allJobs(), id)
deleteJobRemoveAll(p, ok) ==
  /\ proc[p].pc = "d_removeAll"
  /\ IF ok
       THEN /\ jobsAll' = removeFromSet(jobsAll, proc[p].id)
            /\ proc' = [proc EXCEPT ![p].pc = "d_removeStatus"]
       ELSE /\ jobsAll' = jobsAll
            /\ proc' = Throw(p, RemoveFromSetError)
  /\ UNCHANGED <<jobKeys, jobsByStatus, nextId, clock>>
  /\ Account(p, ok)

\* deleteJob lines 153-155: removeFromSet(jobsByStatus(existingJob.status), id); return true
deleteJobRemoveStatus(p, ok) ==
  /\ proc[p].pc = "d_removeStatus"
  /\ IF ok
       THEN /\ jobsByStatus' =
                 [jobsByStatus EXCEPT ![proc[p].existingJob.status] =
                    removeFromSet(@, proc[p].id)]
            /\ proc' = [proc EXCEPT ![p].pc = "done", ![p].result = "true"]
       ELSE /\ jobsByStatus' = jobsByStatus
            /\ proc' = Throw(p, RemoveFromSetError)
  /\ UNCHANGED <<jobKeys, jobsAll, nextId, clock>>
  /\ Account(p, ok)

\* ---------------------------------------------------------------- reads
\* getJobById(id): the job or null
getJobById(id) == getJob(jobKeys, id, TRUE)

\* a listing that returns whatever the reads of the members answer
getJobsByStatus_unfiltered(status) ==
  { getJob(jobKeys, id, TRUE) : id \in getSetMembers(jobsByStatus[status]) }

\* getJobsByStatus(status), lines 170-181: members of the status set whose record
\* exists and carries that status
getJobsByStatus(status) ==
  { j \in { getJob(jobKeys, id, TRUE) : id \in getSetMembers(jobsByStatus[status]) } :
      j # NullJob /\ j.status = status }

\* getAllJobs(), lines 55-66: members of jobs:all whose record exists
getAllJobs ==
  { j \in { getJob(jobKeys, id, TRUE) : id \in getSetMembers(jobsAll) } : j # NullJob }

\* ------------------------------------------------------ utils/redisKeys.ts
\* the value of a `string | null`
NullString == [null |-> TRUE, value |-> <<>>]
JustString(str) == [null |-> FALSE, value |-> str]

\* String.prototype.startsWith
startsWith(str, prefix) ==
  /\ Len(str) >= Len(prefix)
  /\ SubSeq(str, 1, Len(prefix)) = prefix

\* String.prototype.substring(start): from the 0-based index start to the end
substring(str, start) == SubSeq(str, start + 1, Len(str))

\* the prefix 'job:' of extractJobIdFromKey and of RedisKeys.job
JobPrefix == <<"j", "o", "b", ":">>

\* RedisKeys.job: `job:${id}`
RedisKeysJob(id) == JobPrefix \o id

\* extractJobIdFromKey: the rest of a key that starts with 'job:', else null
extractJobIdFromKey(key) ==
  IF startsWith(key, JobPrefix)
    THEN JustString(substring(key, Len(JobPrefix)))
    ELSE NullString

\* the character class [a-f0-9] under the flag i
HexDigits ==
  {"0", "1", "2", "3", "4", "5", "6", "7", "8", "9",
   "a", "b", "c", "d", "e", "f", "A", "B", "C", "D", "E", "F"}

\* the repetition counts {8}-{4}-{4}-{4}-{12} of the pattern
UuidGroups == <<8, 4, 4, 4, 12>>

RECURSIVE SumTo(_, _)
SumTo(lengths, n) == IF n = 0 THEN 0 ELSE SumTo(lengths, n - 1) + lengths[n]

\* the length the pattern's body matches, and the places of its dashes
UuidLength == SumTo(UuidGroups, Len(UuidGroups)) + Len(UuidGroups) - 1
DashPositions == { SumTo(UuidGroups, n) + n : n \in 1..(Len(UuidGroups) - 1) }

\* isValidJobKey: /^job:[a-f0-9]{8}-[a-f0-9]{4}-[a-f0-9]{4}-[a-f0-9]{4}-[a-f0-9]{12}$/i
isValidJobKey(key) ==
  /\ Len(key) = Len(JobPrefix) + UuidLength
  /\ toLowerCase(SubSeq(key, 1, Len(JobPrefix))) = JobPrefix
  /\ \A i \in 1..UuidLength :
       LET c == key[Len(JobPrefix) + i]
       IN IF i \in DashPositions THEN c = "-" ELSE c \in HexDigits

\* ids and keys the functions are applied to
Uuid == <<"1", "2", "3", "e", "4", "5", "6", "7", "-", "e", "8", "9", "b", "-", "1", "2", "d", "3", "-", "a", "4", "5", "6", "-", "4", "2", "6", "6", "1", "4", "1", "7", "4", "0", "0", "0">>
UuidUpper == <<"1", "2", "3", "E", "4", "5", "6", "7", "-", "E", "8", "9", "B", "-", "1", "2", "D", "3", "-", "A", "4", "5", "6", "-", "4", "2", "6", "6", "1", "4", "1", "7", "4", "0", "0", "0">>
UuidShort == <<"1", "2", "3", "e", "4", "5", "6", "7", "-", "e", "8", "9", "b", "-", "1", "2", "d", "3", "-", "a", "4", "5", "6", "-", "4", "2", "6", "6", "1", "4", "1", "7", "4", "0", "0">>
UuidLong == <<"1", "2", "3", "e", "4", "5", "6", "7", "-", "e", "8", "9", "b", "-", "1", "2", "d", "3", "-", "a", "4", "5", "6", "-", "4", "2", "6", "6", "1", "4", "1", "7", "4", "0", "0", "0", "0">>
UuidNotHex == <<"1", "2", "3", "g", "4", "5", "6", "7", "-", "e", "8", "9", "b", "-", "1", "2", "d", "3", "-", "a", "4", "5", "6", "-", "4", "2", "6", "6", "1", "4", "1", "7", "4", "0", "0", "0">>
UuidNoDashes == <<"1", "2", "3", "e", "4", "5", "6", "7", "0", "e", "8", "9", "b", "0", "1", "2", "d", "3", "0", "a", "4", "5", "6", "0", "4", "2", "6", "6", "1", "4", "1", "7", "4", "0", "0", "0">>
JobIdStrings == {Uuid, UuidUpper, UuidShort, UuidLong, UuidNotHex, UuidNoDashes,
                 <<>>, <<"a", "b", "c">>, <<"1">>}
KeyPrefixes == {JobPrefix, <<"J", "O", "B", ":">>, <<"j", "o", "b", "s", ":">>,
                <<"j", "o", "b">>, <<>>}
RedisKeyStrings == { prefix \o id : prefix \in KeyPrefixes, id \in JobIdStrings }

\* ------------------------------------------- evaluation of pure functions
\* the strings of 1..MaxKeyLen characters a research request can carry
KeyChars == {"a", "A", " "}
KeyStrings == UNION { [1..n -> KeyChars] : n \in 1..MaxKeyLen }
KeyLevels == {<<"b">>, <<"B">>, <<"b", " ">>}

KeyResearchInputs ==
  [service : {"research"}, jobTitle : {NoString}, requirements : {NoString},
   jobDescription : {NoString}, jobId : {"undefined"},
   knowledgeItem : KeyStrings, proficiencyLevel : KeyLevels, forceRefresh : {FALSE}]

KeyExtractionInputs ==
  [service : {"extraction"}, jobTitle : {<<"t">>, <<"T">>}, requirements : {<<"r">>},
   jobDescription : {<<"d">>, <<"d", " ">>}, jobId : JobRefs,
   knowledgeItem : {NoString}, proficiencyLevel : {NoString}, forceRefresh : BOOLEAN]

\* request fields that contain the separator of their key ('|' for extraction,
\* ':' for research), next to fields that do not
SeparatorExtractionInputs ==
  [service : {"extraction"},
   jobTitle : {<<"t">>, <<"t", "|", "r">>},
   requirements : {<<"r">>, <<"r", "|", "d">>, <<"d">>},
   jobDescription : {<<"d">>, <<"r", "|", "d">>},
   jobId : {"undefined"}, knowledgeItem : {NoString}, proficiencyLevel : {NoString},
   forceRefresh : {FALSE}]

SeparatorResearchInputs ==
  [service : {"research"}, jobTitle : {NoString}, requirements : {NoString},
   jobDescription : {NoString}, jobId : {"undefined"},
   knowledgeItem : {<<"a">>, <<"a", ":", "b">>, <<"A">>},
   proficiencyLevel : {<<"c">>, <<"b", ":", "c">>},
   forceRefresh : {FALSE}]

\* the retry configurations withRetry is run with: a grid of small values, and the
\* shipped one
RetryConfigs ==
  [maxAttempts : 0..MaxConfigAttempts, initialDelayMs : 0..MaxConfigDelay,
   maxDelayMs : 0..MaxConfigDelay, backoffMultiplier : 0..MaxConfigMultiplier]
    \cup {RETRY_CONFIG}

\* what the attempts of the wrapped call do: answer, or throw an error
AttemptOutcomes == [1..MaxConfigAttempts -> {"returns"} \cup RemoteErrors]

\* withRetry lines 69-101, from the head of the loop: the attempts made, the delays
\* slept, and whether the call returned or threw
RECURSIVE withRetryFrom(_, _, _, _, _)
withRetryFrom(config, outcomes, attempt, delay, sleeps) ==
  IF attempt > config.maxAttempts
    THEN [returned |-> FALSE, thrown |-> "failed after attempts",
          attempts |-> attempt - 1, sleeps |-> sleeps]
  ELSE IF outcomes[attempt] = "returns"
    THEN [returned |-> TRUE, thrown |-> "none", attempts |-> attempt, sleeps |-> sleeps]
  ELSE IF outcomes[attempt] \in ModelNotFoundErrors \/ attempt = config.maxAttempts
    THEN [returned |-> FALSE, thrown |-> outcomes[attempt],
          attempts |-> attempt, sleeps |-> sleeps]
  ELSE withRetryFrom(config, outcomes, attempt + 1, nextDelayFor(config, delay),
                     Append(sleeps, delay))

\* withRetry lines 66-67: let delay = RETRY_CONFIG.initialDelayMs
withRetry(config, outcomes) ==
  withRetryFrom(config, outcomes, 1, config.initialDelayMs, <<>>)

\* a run of withRetry under some configuration and some pattern of outcomes
runWithRetry ==
  /\ calc = NoCalc
  /\ \E config \in RetryConfigs, outcomes \in AttemptOutcomes :
       calc' = [fn |-> "withRetry", args |-> <<config, outcomes>>,
                out |-> <<withRetry(config, outcomes)>>]
  /\ UNCHANGED storeVars

\* ------------------------------- job.service.ts over MongoDB: getAllJobs
\* the largest page size getAllJobs serves (line 66)
MaxItemsPerPage == 100

Max(a, b) == IF a > b THEN a ELSE b

\* Math.ceil(a / b) for a >= 0 and b >= 1
MathCeil(a, b) == IF a % b = 0 THEN a \div b ELSE (a \div b) + 1

\* a page size without its upper limit
limitNumOf_unbounded(limit) == Max(1, limit)

\* getAllJobs line 66: Math.max(1, Math.min(100, limit))
limitNumOf(limit) == Max(1, Min(MaxItemsPerPage, limit))

\* find().sort({createdAt: -1}).skip(skip).limit(limitNum): the documents are named
\* by their place 1..stored in the sort order
findPage(stored, skip, limitNum) ==
  [i \in 1..Max(0, Min(limitNum, stored - skip)) |-> skip + i]

\* getAllJobs (MongoDB), lines 65-108; counted: what countDocuments answers,
\* stored: the documents in the collection when find runs
mongoGetAllJobs(page, limit, counted, stored) ==
  LET pageNum == Max(1, page)
      limitNum == limitNumOf(limit)
      skip == (pageNum - 1) * limitNum
      totalItems == counted
      jobs == findPage(stored, skip, limitNum)
      totalPages == MathCeil(totalItems, limitNum)
  IN [jobs |-> jobs,
      pagination |->
        [currentPage |-> pageNum, totalPages |-> totalPages, totalItems |-> totalItems,
         itemsPerPage |-> limitNum, hasNextPage |-> pageNum < totalPages,
         hasPreviousPage |-> pageNum > 1]]

\* the pages, the limits and the sizes of the collection getAllJobs is run with
PageArgs == -1..MaxPage
LimitArgs == (-1..MaxLimit) \cup ((MaxItemsPerPage - 1)..(MaxItemsPerPage + 1))
ItemCounts == (0..MaxItems) \cup {MaxItemsPerPage, MaxItemsPerPage + 1}

\* a call of getAllJobs(page, limit); a document may be stored or deleted between
\* countDocuments and find
runGetAllJobs ==
  /\ calc = NoCalc
  /\ \E page \in PageArgs, limit \in LimitArgs, counted \in ItemCounts, stored \in ItemCounts :
       /\ stored \in {counted - 1, counted, counted + 1}
       /\ calc' = [fn |-> "getAllJobs", args |-> <<page, limit, counted, stored>>,
                   out |-> <<mongoGetAllJobs(page, limit, counted, stored)>>]
  /\ UNCHANGED storeVars

\* ------------------------------------------------------ csv.service.ts
\* a row of the CSV file, by what decides its fate: whether its required fields are
\* filled, its _id column (none, a valid ObjectId, anything else), whether a job with
\* that _id is stored, and whether the store accepts the write
ImportJobDTO ==
  [required : BOOLEAN, id : {"none", "valid", "invalid"}, exists : BOOLEAN, storeOk : BOOLEAN]

\* the files of at most MaxRows rows
CsvFiles == UNION { [1..n -> ImportJobDTO] : n \in 0..MaxRows }

\* ImportResult as initialised (lines 61-67)
NewImportResult ==
  [thrown |-> FALSE, success |-> TRUE, created |-> 0, updated |-> 0, failed |-> 0,
   errors |-> <<>>]

\* result.failed++; result.errors.push({row: i + 1, ...})
rowFailed(result, row) ==
  [result EXCEPT !.failed = @ + 1, !.errors = Append(@, row)]

\* a row passes the checks of lines 75-97 (181-203)
rowValid(jobData) == jobData.required /\ jobData.id # "invalid"

\* importJobsFromCSV lines 70-142: the loop body for row i (1-based)
importRow(result, jobData, row) ==
  IF ~rowValid(jobData) THEN rowFailed(result, row)
  ELSE IF ~jobData.storeOk THEN rowFailed(result, row)
  ELSE IF jobData.id = "valid" /\ jobData.exists
    THEN [result EXCEPT !.updated = @ + 1]
    ELSE [result EXCEPT !.created = @ + 1]

RECURSIVE importRows(_, _)
importRows(jobs, n) ==
  IF n = 0 THEN NewImportResult ELSE importRow(importRows(jobs, n - 1), jobs[n], n)

\* lines 145 and 253: result.failed === jobs.length
allFailed(failed, length) == failed = length

\* importJobsFromCSV
importJobsFromCSV(jobs) ==
  LET result == importRows(jobs, Len(jobs))
  IN IF allFailed(result.failed, Len(jobs)) THEN [result EXCEPT !.success = FALSE]
     ELSE result

\* bulkUpsertJobs lines 176-243: the rows that fail validation are counted, the
\* others become bulk operations
RECURSIVE validateRows(_, _)
validateRows(jobs, n) ==
  IF n = 0 THEN NewImportResult
  ELSE LET result == validateRows(jobs, n - 1)
       IN IF rowValid(jobs[n]) THEN result ELSE rowFailed(result, n)

\* bulkUpsertJobs: a failing bulkWrite reaches the outer catch and is thrown; a
\* stored job matched by an upsert is counted as modified
bulkUpsertJobs(jobs) ==
  LET validated == validateRows(jobs, Len(jobs))
      bulkOps == { n \in 1..Len(jobs) : rowValid(jobs[n]) }
      matched == { n \in bulkOps : jobs[n].id = "valid" /\ jobs[n].exists }
      written == IF bulkOps = {} THEN validated
                 ELSE [validated EXCEPT !.created = Cardinality(bulkOps \ matched),
                                        !.updated = Cardinality(matched)]
  IN IF \E n \in bulkOps : ~jobs[n].storeOk
       THEN [NewImportResult EXCEPT !.thrown = TRUE, !.success = FALSE]
     ELSE IF allFailed(written.failed, Len(jobs))
       THEN [written EXCEPT !.success = FALSE]
     ELSE written

\* an import of a file through one of the two functions
runImport ==
  /\ calc = NoCalc
  /\ \E jobs \in CsvFiles :
       \/ calc' = [fn |-> "importJobsFromCSV", args |-> <<jobs>>,
                   out |-> <<importJobsFromCSV(jobs)>>]
       \/ calc' = [fn |-> "bulkUpsertJobs", args |-> <<jobs>>,
                   out |-> <<bulkUpsertJobs(jobs)>>]
  /\ UNCHANGED storeVars

\* ------------------------------------- the two job services side by side
\* String.prototype.trim, on the space character
RECURSIVE stringTrim(_)
stringTrim(str) ==
  IF str = <<>> THEN str
  ELSE IF Head(str) = " " THEN stringTrim(Tail(str))
  ELSE IF str[Len(str)] = " " THEN stringTrim(SubSeq(str, 1, Len(str) - 1))
  ELSE str

\* job titles that pass createJobSchema (not empty, not trimmed by Joi); a title that
\* is missing from an update is the empty string here
JobTitleValues == {<<"a">>, <<" ", "a">>}
DualStatuses == {"Pending", "Hired"}

\* CreateJobDTO and UpdateJobDTO with the title
TitledCreateDTO == [jobTitle : JobTitleValues, status : DualStatuses, notes : {"n1"}]
TitledUpdateDTO ==
  [jobTitle : JobTitleValues \cup {NoString}, status : DualStatuses \cup {Absent},
   notes : {Absent}]
NoTitledData == [jobTitle |-> NoString, status |-> Absent, notes |-> Absent]

\* null, for a job with a title
NullTitledJob == [id |-> 0, jobTitle |-> NoString, status |-> "null", notes |-> "null"]

\* { ...existing, ...data }: the fields present in data replace the existing ones
mergeFields(existing, data) ==
  [id |-> existing.id,
   jobTitle |-> IF data.jobTitle = NoString THEN existing.jobTitle ELSE data.jobTitle,
   status |-> IF data.status = Absent THEN existing.status ELSE data.status,
   notes |-> IF data.notes = Absent THEN existing.notes ELSE data.notes]

\* the Redis-backed service, an operation run to its end without a failure. The
\* store: the job strings (as parsed), jobs:all, the status sets, the ids handed out
EmptyRedis ==
  [keys |-> [i \in JobIds |-> NullTitledJob], all |-> {},
   byStatus |-> [st \in Statuses |-> {}], nextId |-> 1]

\* createJob (Redis), lines 18-41
redisCreateJob(store, data) ==
  LET id == store.nextId
      job == [id |-> id, jobTitle |-> data.jobTitle, status |-> data.status,
              notes |-> data.notes]
  IN [keys |-> [store.keys EXCEPT ![id] = job],
      all |-> addToSet(store.all, id),
      byStatus |-> [store.byStatus EXCEPT ![job.status] = addToSet(@, id)],
      nextId |-> id + 1]

\* updateJob (Redis), lines 94-125
redisUpdateJob(store, id, data) ==
  LET existingJob == store.keys[id]
      updatedJob == mergeFields(existingJob, data)
      saved == [store EXCEPT !.keys[id] = updatedJob]
  IN IF existingJob = NullTitledJob THEN store
     ELSE IF data.status # Absent /\ data.status # existingJob.status
       THEN [saved EXCEPT !.byStatus =
               [[store.byStatus EXCEPT ![existingJob.status] = removeFromSet(@, id)]
                  EXCEPT ![data.status] = addToSet(@, id)]]
     ELSE saved

\* deleteJob (Redis), lines 137-155
redisDeleteJob(store, id) ==
  LET existingJob == store.keys[id]
  IN IF existingJob = NullTitledJob THEN store
     ELSE [store EXCEPT !.keys[id] = NullTitledJob,
                        !.all = removeFromSet(@, id),
                        !.byStatus[existingJob.status] = removeFromSet(@, id)]

\* getJobById and getJobsByStatus (Redis)
redisGetJobById(store, id) == store.keys[id]
redisGetJobsByStatus(store, status) ==
  { j \in { store.keys[id] : id \in getSetMembers(store.byStatus[status]) } :
      j # NullTitledJob /\ j.status = status }

\* the MongoDB-backed service. The store: the documents of the jobs collection and
\* the ids handed out
EmptyMongo == [docs |-> [i \in JobIds |-> NullTitledJob], nextId |-> 1]

\* jobSchema: jobTitle is { type: String, trim: true }
castTitle(jobTitle) == stringTrim(jobTitle)

\* createJob (MongoDB), lines 16-36: new JobModel(data).save()
mongoCreateJob(store, data) ==
  LET id == store.nextId
      doc == [id |-> id, jobTitle |-> castTitle(data.jobTitle), status |-> data.status,
              notes |-> data.notes]
  IN [docs |-> [store.docs EXCEPT ![id] = doc], nextId |-> id + 1]

\* updateJob (MongoDB), lines 154-180: findByIdAndUpdate(id, { $set: data })
mongoUpdateJob(store, id, data) ==
  IF store.docs[id] = NullTitledJob THEN store
  ELSE [store EXCEPT !.docs[id] =
          mergeFields(@, [data EXCEPT !.jobTitle = castTitle(@)])]

\* deleteJob (MongoDB), lines 192-200: findByIdAndDelete(id)
mongoDeleteJob(store, id) == [store EXCEPT !.docs[id] = NullTitledJob]

\* getJobById and getJobsByStatus (MongoDB)
mongoGetJobById(store, id) == store.docs[id]
mongoGetJobsByStatus(store, status) ==
  { store.docs[id] : id \in { i \in JobIds : store.docs[i].status = status } }

\* the operations run on both services; the n-th job created has id n in both
JobOps ==
  [op : {"create"}, id : {0}, data : TitledCreateDTO]
    \cup [op : {"update"}, id : JobIds, data : TitledUpdateDTO]
    \cup [op : {"delete"}, id : JobIds, data : {NoTitledData}]

Creates(ops) == Cardinality({ n \in 1..Len(ops) : ops[n].op = "create" })

\* the sequences of at most MaxOps operations that create at most MaxJobs jobs
OpSequences ==
  { ops \in UNION { [1..n -> JobOps] : n \in 0..MaxOps } : Creates(ops) <= MaxJobs }

redisApply(store, o) ==
  IF o.op = "create" THEN redisCreateJob(store, o.data)
  ELSE IF o.op = "update" THEN redisUpdateJob(store, o.id, o.data)
  ELSE redisDeleteJob(store, o.id)

mongoApply(store, o) ==
  IF o.op = "create" THEN mongoCreateJob(store, o.data)
  ELSE IF o.op = "update" THEN mongoUpdateJob(store, o.id, o.data)
  ELSE mongoDeleteJob(store, o.id)

RECURSIVE redisRun(_, _)
redisRun(ops, n) == IF n = 0 THEN EmptyRedis ELSE redisApply(redisRun(ops, n - 1), ops[n])

RECURSIVE mongoRun(_, _)
mongoRun(ops, n) == IF n = 0 THEN EmptyMongo ELSE mongoApply(mongoRun(ops, n - 1), ops[n])

\* one sequence of operations, run on both services
runBothServices ==
  /\ calc = NoCalc
  /\ \E ops \in OpSequences :
       calc' = [fn |-> "bothServices", args |-> <<ops>>,
                out |-> <<redisRun(ops, Len(ops)), mongoRun(ops, Len(ops))>>]
  /\ UNCHANGED storeVars

\* the cache keys two requests of one service derive
deriveCacheKeys(a, b) ==
  /\ calc = NoCalc
  /\ a.service = b.service
  /\ calc' = [fn |-> "cacheKey", args |-> <<a, b>>,
              out |-> <<cacheKeyOf(a), cacheKeyOf(b)>>]
  /\ UNCHANGED storeVars

\* RedisKeys.job(id), and the id extracted from that key
jobKeyRoundTrip(id) ==
  /\ calc = NoCalc
  /\ calc' = [fn |-> "RedisKeys.job", args |-> <<id>>,
              out |-> <<RedisKeysJob(id), extractJobIdFromKey(RedisKeysJob(id))>>]
  /\ UNCHANGED storeVars

\* extractJobIdFromKey(key) and isValidJobKey(key)
extractJobId(key) ==
  /\ calc = NoCalc
  /\ calc' = [fn |-> "extractJobIdFromKey", args |-> <<key>>,
              out |-> <<extractJobIdFromKey(key), isValidJobKey(key)>>]
  /\ UNCHANGED storeVars

\* ---------------------------------------- knowledge services: requests
\* history: the stored entry made from the same logical input as this request
\* (the same title, requirements and description; the same item and level up to case)
SameLogicalInput(e, input) ==
  /\ e.cacheType = cacheTypeOf(input)
  /\ IF input.service = "extraction"
       THEN e.inputHash = generateInputHash(input)
       ELSE /\ toLowerCase(e.knowledgeItem) = toLowerCase(input.knowledgeItem)
            /\ toLowerCase(e.proficiencyLevel) = toLowerCase(input.proficiencyLevel)

EntryFor(docs, input) ==
  LET same == { e \in docs : SameLogicalInput(e, input) }
  IN IF same = {} THEN NoEntry
     ELSE LET e == CHOOSE x \in same : TRUE
          IN [responseContent |-> e.responseContent, expiresAt |-> e.expiresAt]

KInFlight(p) == kreq[p].pc \notin {"idle", "done"}

\* requests are served one at a time, in the lowest free slot
KCanStart(p) ==
  /\ \A q \in Procs : ~KInFlight(q)
  /\ \A q \in Procs : q < p => KInFlight(q)

KBegin(p, locals) == [q \in Procs |-> IF q = p THEN locals ELSE IdleKReq]

\* extractKnowledgeRequirements lines 45-76 / researchKnowledge lines 126-156:
\* validate, derive the key, and either look the cache up or skip it
knowledgeCall(p, input) ==
  /\ KCanStart(p)
  /\ kreq' = KBegin(p,
       IF missingFields(input)
         THEN [IdleKReq EXCEPT !.pc = "done", !.input = input,
                               !.result = Failure("Missing required fields")]
         ELSE [IdleKReq EXCEPT
                 !.pc = IF input.forceRefresh THEN "callGemini" ELSE "checkCache",
                 !.input = input, !.cacheKey = cacheKeyOf(input), !.now = clock,
                 !.attempt = IF input.forceRefresh THEN 1 ELSE 0,
                 !.delay = IF input.forceRefresh THEN initialDelayMs ELSE 0,
                 !.atCall = EntryFor(cache, input)])
  /\ UNCHANGED <<cache, faults>>
  /\ UNCHANGED <<jobVars, overlaps, clock, calc>>

\* the await of checkCache: a hit returns the cached content, anything else goes on
\* to the remote call
knowledgeCheckCache(p, ok) ==
  /\ kreq[p].pc = "checkCache"
  /\ LET r == kreq[p]
         cached == checkCache(cache, r.cacheKey, cacheTypeOf(r.input), r.now, ok)
         looked == [r EXCEPT !.lookup = IF ok THEN "ok" ELSE "failed",
                             !.seen = EntryFor(cache, r.input)]
     IN kreq' = [kreq EXCEPT ![p] =
          IF cached # NoContent
            THEN [looked EXCEPT !.pc = "done", !.result = Success(cached, "true")]
            ELSE [looked EXCEPT !.pc = "callGemini", !.attempt = 1,
                                !.delay = initialDelayMs]]
  /\ UNCHANGED <<cache, faults>>
  /\ UNCHANGED <<jobVars, overlaps, clock, calc>>

\* withRetry lines 69-71: an attempt of the remote call answers with a text
withRetryReturns(p, text) ==
  /\ kreq[p].pc = "callGemini"
  /\ kreq' = [kreq EXCEPT ![p].pc = "saveToCache", ![p].content = text]
  /\ UNCHANGED <<cache, faults>>
  /\ UNCHANGED <<jobVars, overlaps, clock, calc>>

\* withRetry lines 72-101: an attempt throws; model-not-found is rethrown at once,
\* the last attempt's error is thrown after maxAttempts, else sleep and retry
withRetryThrows(p, message) ==
  /\ kreq[p].pc = "callGemini"
  /\ LET error == ErrorOf(message, kreq[p].attempt)
         r == [kreq[p] EXCEPT !.lastError = error]
     IN kreq' = [kreq EXCEPT ![p] =
          IF isModelNotFound(error) \/ isLastAttempt(r.attempt)
            THEN [r EXCEPT !.pc = "done", !.result = Failure(r.lastError.message)]
            ELSE [r EXCEPT !.pc = "sleep"]]
  /\ UNCHANGED <<cache, faults>>
  /\ UNCHANGED <<jobVars, overlaps, clock, calc>>

\* withRetry lines 96-97: sleep(delay), then the next attempt with the next delay
withRetrySleep(p) ==
  /\ kreq[p].pc = "sleep"
  /\ kreq' = [kreq EXCEPT ![p].pc = "callGemini",
                          ![p].sleeps = Append(@, kreq[p].delay),
                          ![p].delay = nextDelay(@),
                          ![p].attempt = @ + 1]
  /\ UNCHANGED <<cache, faults>>
  /\ UNCHANGED <<jobVars, overlaps, clock, calc>>

\* a save whose failure reaches the service's catch block
knowledgeSaveToCache_surfaces(p, ok) ==
  /\ kreq[p].pc = "saveToCache"
  /\ LET r == kreq[p]
     IN /\ cache' = IF ok THEN saveToCache(cache, r.input, r.cacheKey, r.content, clock)
                     ELSE cache
        /\ kreq' = [kreq EXCEPT ![p].pc = "done",
                                ![p].persisted = IF ok THEN "saved" ELSE "failed",
                                ![p].result = IF ok THEN Success(r.content, "false")
                                              ELSE Failure("Failed to save to cache")]
  /\ UNCHANGED <<jobVars, faults, overlaps, clock, calc>>

\* saveToCache and the success return: a failing write is logged and swallowed
knowledgeSaveToCache(p, ok) ==
  /\ kreq[p].pc = "saveToCache"
  /\ LET r == kreq[p]
     IN /\ cache' = IF ok THEN saveToCache(cache, r.input, r.cacheKey, r.content, clock)
                     ELSE cache
        /\ kreq' = [kreq EXCEPT ![p].pc = "done",
                                ![p].persisted = IF ok THEN "saved" ELSE "failed",
                                ![p].result = Success(r.content, "false")]
  /\ UNCHANGED <<jobVars, faults, overlaps, clock, calc>>

\* the TTL index on expiresAt: the store deletes a document that has expired
ttlExpire ==
  /\ \E e \in cache : e.expiresAt <= clock /\ cache' = cache \ {e}
  /\ UNCHANGED <<kreq, faults>>
  /\ UNCHANGED <<jobVars, overlaps, clock, calc>>

\* ------------------------------------------------------- specifications
\* a call of one of the three mutating operations, its DTO drawn from the given sets
Call(p, mode, creates, updates) ==
  \/ \E data \in creates : createJobCall(p, data, mode)
  \/ \E id \in JobIds, data \in updates : updateJobCall(p, id, data, mode)
  \/ \E id \in JobIds : deleteJobCall(p, id, mode)

\* the next store call of the operation in flight; ok: the store call succeeds
Step(p, ok) ==
  \/ createJobSetJob(p, ok)
  \/ createJobAddAll(p, ok)
  \/ createJobAddStatus(p, ok)
  \/ updateJobGetJob(p, ok)
  \/ updateJobSetJob(p, ok)
  \/ updateJobRemoveOld(p, ok)
  \/ updateJobAddNew(p, ok)
  \/ deleteJobGetJob(p, ok)
  \/ deleteJobDeleteKey(p, ok)
  \/ deleteJobRemoveAll(p, ok)
  \/ deleteJobRemoveStatus(p, ok)

\* operations one at a time, no storage failures, within one clock reading
Next ==
  \/ \E p \in Procs : Call(p, "seq", StatusCreateDTO, StatusUpdateDTO)
  \/ \E p \in Procs : Step(p, TRUE)

Spec == Init /\ [][Next]_vars

\* operations one at a time, no storage failures, the clock advancing
NextClock ==
  \/ Tick
  \/ \E p \in Procs : Call(p, "seq", StatusCreateDTO, StatusUpdateDTO)
  \/ \E p \in Procs : Step(p, TRUE)

SpecClock == Init /\ [][NextClock]_vars

\* operations one at a time, any store call may fail
NextFail ==
  \/ \E p \in Procs : Call(p, "seq", StatusCreateDTO, StatusUpdateDTO)
  \/ \E p \in Procs, ok \in BOOLEAN : Step(p, ok)

SpecFail == Init /\ [][NextFail]_vars

\* updateJob calls on one job interleave at every store call, no storage failures
NextConc ==
  \/ \E p \in Procs : Call(p, "conc", StatusCreateDTO, StatusUpdateDTO)
  \/ \E p \in Procs : Step(p, TRUE)

SpecConc == Init /\ [][NextConc]_vars

\* updateJob and deleteJob calls on one job interleave at every store call, no
\* storage failures
NextRace ==
  \/ \E p \in Procs : Call(p, "race", PendingCreateDTO, MoveUpdateDTO)
  \/ \E p \in Procs : Step(p, TRUE)

SpecRace == Init /\ [][NextRace]_vars

\* knowledge requests one at a time; the clock advances, cache lookups and writes
\* may fail, the remote call answers or throws
NextCache ==
  \/ Tick
  \/ ttlExpire
  \/ \E p \in Procs, input \in KnowledgeExtractionInput \cup KnowledgeResearchInput :
       knowledgeCall(p, input)
  \/ \E p \in Procs, ok \in BOOLEAN : knowledgeCheckCache(p, ok)
  \/ \E p \in Procs, text \in Payloads : withRetryReturns(p, text)
  \/ \E p \in Procs, message \in RemoteErrors : withRetryThrows(p, message)
  \/ \E p \in Procs : withRetrySleep(p)
  \/ \E p \in Procs, ok \in BOOLEAN : knowledgeSaveToCache(p, ok)

SpecCache == Init /\ [][NextCache]_vars

\* the key functions, each applied once to arguments drawn from the sets above
NextKeys ==
  \/ \E a, b \in KeyResearchInputs \cup KeyExtractionInputs : deriveCacheKeys(a, b)
  \/ \E id \in JobIdStrings : jobKeyRoundTrip(id)
  \/ \E key \in RedisKeyStrings : extractJobId(key)

SpecKeys == Init /\ [][NextKeys]_vars

\* the cache keys of requests whose fields may contain the separator
NextSeparator ==
  \E a, b \in SeparatorExtractionInputs \cup SeparatorResearchInputs : deriveCacheKeys(a, b)

SpecSeparator == Init /\ [][NextSeparator]_vars

\* withRetry, run once
NextRetry == runWithRetry

SpecRetry == Init /\ [][NextRetry]_vars

\* getAllJobs of the MongoDB-backed service, run once
NextPage == runGetAllJobs

SpecPage == Init /\ [][NextPage]_vars

\* the CSV import, run once on a file
NextImport == runImport

SpecImport == Init /\ [][NextImport]_vars

\* operations one at a time, no storage failures, every field of the DTOs varying
NextFields ==
  \/ \E p \in Procs : Call(p, "seq", CreateJobDTO, UpdateJobDTO)
  \/ \E p \in Procs : Step(p, TRUE)

SpecFields == Init /\ [][NextFields]_vars

\* operations one at a time; the set removals of deleteJob may fail, which leaves
\* the id of a deleted job in jobs:all or in a status set
NextStale ==
  \/ \E p \in Procs : Call(p, "seq", StatusCreateDTO, StatusUpdateDTO)
  \/ \E p \in Procs : Step(p, TRUE)
  \/ \E p \in Procs : deleteJobRemoveAll(p, FALSE)
  \/ \E p \in Procs : deleteJobRemoveStatus(p, FALSE)

SpecStale == Init /\ [][NextStale]_vars

\* operations one at a time; the removal from a status set may fail, in updateJob
\* (the job stays filed under the status it no longer has) and in deleteJob (the id
\* of the deleted job stays in its status set)
NextDrift ==
  \/ \E p \in Procs : Call(p, "seq", PendingCreateDTO, MoveUpdateDTO)
  \/ \E p \in Procs : Step(p, TRUE)
  \/ \E p \in Procs : updateJobRemoveOld(p, FALSE)
  \/ \E p \in Procs : deleteJobRemoveStatus(p, FALSE)

SpecDrift == Init /\ [][NextDrift]_vars

\* the two job services, run on one sequence of operations
NextDual == runBothServices

SpecDual == Init /\ [][NextDual]_vars

\* ------------------------------------------------------------------ claims
\* no call is in flight
Quiescent == \A p \in Procs : ~InFlight(p)

\* the ids that have a primary record
LiveIds == { id \in JobIds : jobKeys[id] # NilString }

\* the stored status of a live id
StoredStatus(id) == JSONparse(jobKeys[id]).status

\* the ids of the jobs a listing returns
IdsOf(jobs) == { j.id : j \in jobs }

\* p has returned from `op` with `result`
Returned(p, op, result) ==
  proc[p].op = op /\ proc[p].pc = "done" /\ proc[p].result = result

\* C1: operations one at a time and no storage failure: after every createJob,
\* updateJob and deleteJob, jobs:all is exactly the set of ids with a primary
\* record and jobs:status:<s> is exactly the set of live ids whose stored status is s.
C1_IndexConsistent ==
  Quiescent =>
    /\ jobsAll = LiveIds
    /\ \A s \in Statuses :
         jobsByStatus[s] = { id \in LiveIds : StoredStatus(id) = s }

\* a status-changing update has just returned, after a create and a delete
C1_Witness ==
  /\ Quiescent
  /\ deleted # {}
  /\ \E p \in Procs : Returned(p, "update", "job") /\ proc[p].statusChanged
  /\ LiveIds # {}

\* C2: when concurrent updateJob calls on one job have all returned, every live
\* id is a member of the status set matching its stored status (it may in addition
\* be a member of another status set).
C2_RacedUpdatesStayIndexed ==
  \A p, q \in Procs :
    (/\ p # q
     /\ Returned(p, "update", "job") /\ proc[p].statusChanged
     /\ Returned(q, "update", "job") /\ proc[q].statusChanged
     /\ proc[p].id = proc[q].id) =>
      proc[p].id \in jobsByStatus[StoredStatus(proc[p].id)]

\* the errors of the set (index) operations
SetErrors == {AddToSetError, RemoveFromSetError}

\* C3: when a set operation fails after the primary write or delete succeeded,
\* createJob, updateJob and deleteJob still report their success result.
C3_IndexFailureNotSurfaced ==
  \A p \in Procs :
    (proc[p].pc = "done" /\ proc[p].error \in SetErrors) =>
      proc[p].result \in {"job", "true"}

\* C4: when updateJob changes the status and one of its two set operations
\* fails, the id ends up in both the old and the new status set.
C4_PartialIndexUpdateInBoth ==
  \A p \in Procs :
    (proc[p].op = "update" /\ proc[p].pc = "done" /\ proc[p].statusChanged
       /\ proc[p].error \in SetErrors) =>
      /\ proc[p].id \in jobsByStatus[proc[p].existingJob.status]
      /\ proc[p].id \in jobsByStatus[proc[p].data.status]

\* C5: after createJob succeeds with status s, getJobsByStatus(s) includes the
\* new job and getJobsByStatus(t) does not, for every other status t.
C5_CreateListedUnderItsStatus ==
  \A p \in Procs :
    Returned(p, "create", "job") =>
      \A t \in Statuses :
        (proc[p].job \in getJobsByStatus(t)) <=> (t = proc[p].data.status)

\* a second job has just been created under a status other than the first one's
C5_Witness ==
  \E p \in Procs :
    /\ Returned(p, "create", "job")
    /\ proc[p].id = 2
    /\ proc[p].data.status = "Hired"
    /\ getJobsByStatus("Pending") # {}

\* C6: after a successful updateJob that changes the status from old to new,
\* getJobsByStatus(old) no longer includes the job and getJobsByStatus(new)
\* includes it; the old status used for the removal is the one read before the merge.
C6_UpdateMovesListing ==
  \A p \in Procs :
    (Returned(p, "update", "job") /\ proc[p].data.status # Absent
       /\ proc[p].data.status # proc[p].existingJob.status) =>
      /\ proc[p].id \notin IdsOf(getJobsByStatus(proc[p].existingJob.status))
      /\ proc[p].job \in getJobsByStatus(proc[p].data.status)
      /\ proc[p].oldStatus = proc[p].existingJob.status

\* a job has just moved from Pending to Interview
C6_Witness ==
  \E p \in Procs :
    /\ Returned(p, "update", "job")
    /\ proc[p].existingJob.status = "Pending"
    /\ proc[p].data.status = "Interview"

\* C7: every successful updateJob produces an updatedAt strictly greater than
\* the one before the call and leaves createdAt as it was, whatever the clock reads.
C7_UpdatedAtStrictlyIncreases ==
  \A p \in Procs :
    Returned(p, "update", "job") =>
      /\ proc[p].job.updatedAt > proc[p].existingJob.updatedAt
      /\ proc[p].job.createdAt = proc[p].existingJob.createdAt
      /\ getJobById(proc[p].id) = proc[p].job

\* C8: once deleteJob(id) has returned true, getJobById(id) returns null and no
\* getJobsByStatus(s) and no getAllJobs includes the job.
C8_DeletedStaysGone ==
  \A id \in deleted :
    /\ getJobById(id) = NullJob
    /\ \A s \in Statuses : id \notin IdsOf(getJobsByStatus(s))
    /\ id \notin IdsOf(getAllJobs)

\* a job was deleted, and later another job was updated
C8_Witness ==
  /\ deleted # {}
  /\ LiveIds # {}
  /\ \E p \in Procs : Returned(p, "update", "job") /\ proc[p].id \notin deleted


\* ------------------------------------------------------ cache freshness
\* a validated request that has returned
KDone(p) == kreq[p].pc = "done" /\ kreq[p].cacheKey # NoString

\* an entry made from the same logical input was stored when the request was issued
StoredAtCall(p) == kreq[p].atCall.responseContent # NoContent

\* ... and its expiresAt was not later than the request's time
StaleAtCall(p) == StoredAtCall(p) /\ kreq[p].atCall.expiresAt <= kreq[p].now

\* ... or the request's time was before its expiresAt
FreshAtCall(p) == StoredAtCall(p) /\ kreq[p].now < kreq[p].atCall.expiresAt

\* C9 as stated: a request that finds the entry of its input stale (expiresAt not
\* later than the request's time) never returns it as a hit: it has gone to the
\* remote call and its answer carries fromCache = false.
C9_StaleAnswersFromCacheFalse ==
  \A p \in Procs :
    KDone(p) /\ StaleAtCall(p) =>
      /\ kreq[p].attempt >= 1
      /\ kreq[p].result.fromCache = "false"

\* C9 as amended: a stale entry is never returned as a hit, with or without
\* forceRefresh; the request goes to the remote call, and its answer carries
\* fromCache = false when the remote call succeeds and is a failure without
\* fromCache when the remote call fails.
C9_StaleNeverHit ==
  \A p \in Procs :
    KDone(p) /\ StaleAtCall(p) =>
      /\ kreq[p].attempt >= 1
      /\ kreq[p].result.fromCache # "true"
      /\ kreq[p].result.success =>
           kreq[p].result.fromCache = "false" /\ kreq[p].result.content = kreq[p].content
      /\ ~kreq[p].result.success =>
           kreq[p].result.fromCache = "absent" /\ kreq[p].result.error # "none"

\* a request without forceRefresh looked the cache up, with the stale entry still
\* stored, and answered with a newly generated text
C9_Witness ==
  \E p \in Procs :
    /\ KDone(p) /\ StaleAtCall(p)
    /\ ~kreq[p].input.forceRefresh
    /\ kreq[p].lookup = "ok"
    /\ kreq[p].seen = kreq[p].atCall
    /\ kreq[p].result.success /\ kreq[p].result.fromCache = "false"

\* C10 as stated: a request without forceRefresh, issued while the entry persisted
\* for its logical input is fresh, returns that payload with fromCache = true, makes
\* no remote call and writes nothing to the cache.
C10_FreshEntryAlwaysHit ==
  \A p \in Procs :
    KDone(p) /\ ~kreq[p].input.forceRefresh /\ FreshAtCall(p) =>
      /\ kreq[p].result = Success(kreq[p].atCall.responseContent, "true")
      /\ kreq[p].attempt = 0
      /\ kreq[p].persisted = "no"

\* C10 as amended: a request without forceRefresh whose cache lookup completes
\* without a storage error, while the entry persisted for its logical input is still
\* stored with expiresAt later than the request's time, returns that payload with
\* fromCache = true, makes no remote call and writes nothing to the cache.
C10_FreshEntryHitOnLookup ==
  \A p \in Procs :
    /\ ~kreq[p].input.forceRefresh
    /\ kreq[p].lookup = "ok"
    /\ kreq[p].seen.responseContent # NoContent
    /\ kreq[p].now < kreq[p].seen.expiresAt
    => /\ kreq[p].pc = "done"
       /\ kreq[p].result = Success(kreq[p].seen.responseContent, "true")
       /\ kreq[p].attempt = 0
       /\ kreq[p].persisted = "no"

\* a hit on an entry that an earlier request stored for another job, or for the
\* same item written in another letter case
C10_Witness ==
  \E p \in Procs :
    /\ KDone(p)
    /\ kreq[p].lookup = "ok"
    /\ kreq[p].result.fromCache = "true"
    /\ \E e \in cache :
         /\ SameLogicalInput(e, kreq[p].input)
         /\ e.responseContent = kreq[p].result.content
         /\ e.jobId # kreq[p].input.jobId \/ e.knowledgeItem # kreq[p].input.knowledgeItem


\* -------------------------------------------------------- forced refresh
\* the stored entries with the key of request p
EntriesOf(docs, p) == { e \in docs : e.cacheKey = kreq[p].cacheKey }

\* request p's save step succeeds in this step
Persists(p) ==
  /\ kreq[p].pc = "saveToCache"
  /\ kreq'[p].persisted = "saved"

\* C11: a request with forceRefresh = true never looks the cache up and always
\* calls the remote model, also when a fresh entry is stored for its key; when the
\* generation and the save succeed, the one entry stored for the key holds the new
\* payload and an expiresAt computed at the save.
C11_ForceRefreshOverwrites ==
  /\ [](\A p \in Procs :
          kreq[p].input.forceRefresh /\ kreq[p].cacheKey # NoString =>
            /\ kreq[p].lookup = "none"
            /\ kreq[p].attempt >= 1
            /\ kreq[p].result.fromCache # "true")
  /\ [][\A p \in Procs :
          kreq[p].input.forceRefresh /\ Persists(p) =>
            /\ kreq'[p].result = Success(kreq[p].content, "false")
            /\ Cardinality(EntriesOf(cache', p)) = 1
            /\ \A e \in EntriesOf(cache', p) :
                 /\ e.responseContent = kreq[p].content
                 /\ e.expiresAt = clock + CacheExpiryTicks
                 /\ e.expiresAt > clock]_vars

\* a forced request issued while a fresh entry was stored has replaced its payload
C11_Witness ==
  \E p \in Procs :
    /\ KDone(p) /\ kreq[p].input.forceRefresh /\ FreshAtCall(p)
    /\ kreq[p].persisted = "saved"
    /\ kreq[p].content # kreq[p].atCall.responseContent
    /\ \E e \in cache :
         /\ e.cacheKey = kreq[p].cacheKey
         /\ e.responseContent = kreq[p].content
         /\ e.expiresAt > kreq[p].atCall.expiresAt


\* ------------------------------------------------------------ withRetry
\* request p has finished with the failure withRetry threw
RemoteFailed(p) ==
  /\ KDone(p)
  /\ ~kreq[p].result.success
  /\ kreq[p].lastError # NoError

\* C12: when the first attempt of the remote call throws a model-not-found error,
\* withRetry makes no second attempt and sleeps no backoff delay, rethrows that
\* error, and the service answers success = false with that error's message.
C12_ModelNotFoundNotRetried ==
  \A p \in Procs :
    /\ kreq[p].lastError.attempt = 1
    /\ kreq[p].lastError.message \in ModelNotFoundErrors
    => /\ kreq[p].pc = "done"
       /\ kreq[p].attempt = 1
       /\ kreq[p].sleeps = <<>>
       /\ kreq[p].content = NoContent
       /\ kreq[p].persisted = "no"
       /\ kreq[p].result = Failure(kreq[p].lastError.message)

\* the first attempt threw model-not-found and the service has answered
C12_Witness ==
  \E p \in Procs :
    /\ RemoteFailed(p)
    /\ kreq[p].lastError = ErrorOf("404 not found", 1)
    /\ kreq[p].result.error = "404 not found"

\* C13: withRetry invokes the wrapped call at most maxAttempts (3) times; the
\* first attempt that answers ends it (the attempts before it all threw, none
\* follows it); when every attempt throws a retryable error it throws the error of
\* the third attempt after exactly three attempts.
C13_AtMostMaxAttempts ==
  \A p \in Procs :
    LET r == kreq[p] IN
    /\ r.attempt \in 0..maxAttempts
    /\ r.pc = "callGemini" => r.attempt >= 1 /\ Len(r.sleeps) = r.attempt - 1
    /\ r.pc = "sleep" => r.attempt < maxAttempts /\ r.lastError.attempt = r.attempt
    /\ r.content # NoContent =>
         /\ r.pc \in {"saveToCache", "done"}
         /\ r.attempt >= 1
         /\ Len(r.sleeps) = r.attempt - 1
         /\ r.lastError.attempt = r.attempt - 1
    /\ RemoteFailed(p) /\ r.lastError.message \in RetryableErrors =>
         /\ r.attempt = maxAttempts
         /\ r.lastError.attempt = maxAttempts
         /\ r.result.error = r.lastError.message

\* three attempts threw retryable errors and the third one's error was thrown
C13_Witness ==
  \E p \in Procs :
    /\ RemoteFailed(p)
    /\ kreq[p].lastError.message \in RetryableErrors
    /\ kreq[p].attempt = 3
    /\ Len(kreq[p].sleeps) = 2


\* ---------------------------------------------------------- backoff
RECURSIVE Pow(_, _)
Pow(base, exponent) == IF exponent = 0 THEN 1 ELSE base * Pow(base, exponent - 1)

\* the delay the claim gives for the sleep after the k-th failed attempt
ClaimedDelay(config, k) ==
  Min(config.initialDelayMs * Pow(config.backoffMultiplier, k - 1), config.maxDelayMs)

\* the run of withRetry that was evaluated
RetryRun == calc.fn = "withRetry"
RunConfig == calc.args[1]
RunSleeps == calc.out[1].sleeps

\* one sleep after each failed attempt but the last one made
NoSleepAfterFinalAttempt ==
  Len(RunSleeps) = IF calc.out[1].attempts = 0 THEN 0 ELSE calc.out[1].attempts - 1

\* the shipped configuration sleeps 1000 ms, then 2000 ms
ShippedDelays ==
  RunConfig = RETRY_CONFIG => RunSleeps \in {<<>>, <<1000>>, <<1000, 2000>>}

StepsWithoutSave(p) ==
  /\ kreq[p].pc \in {"checkCache", "callGemini", "sleep"}
  /\ kreq'[p] # kreq[p]

\* C15: when the remote call fails for good (a non-retryable error, or the retries
\* are used up) the service answers success = false with the error's message and
\* the request has written nothing: it never reaches the save, and none of its
\* other steps changes the cache, with or without forceRefresh.
C15_RemoteFailureLeavesCache ==
  /\ [](\A p \in Procs :
          RemoteFailed(p) =>
            /\ kreq[p].result.error = kreq[p].lastError.message
            /\ kreq[p].result.fromCache = "absent"
            /\ kreq[p].content = NoContent
            /\ kreq[p].persisted = "no")
  /\ [][\A p \in Procs : StepsWithoutSave(p) => cache' = cache]_vars

\* a request has used up its retries while an entry was stored for its input, and
\* the entry is as it was
C15_Witness ==
  \E p \in Procs :
    /\ RemoteFailed(p)
    /\ StoredAtCall(p)
    /\ kreq[p].lastError.message \in RetryableErrors
    /\ EntryFor(cache, kreq[p].input) = kreq[p].atCall

\* C16: a cache storage failure never fails a request whose generation succeeds: a
\* failing lookup is treated as a miss (the remote call is made), and a failing
\* save is swallowed (the generated text is answered with success = true and
\* fromCache = false) and leaves the cache as it was.
C16_StorageFailureTolerated ==
  /\ [](\A p \in Procs :
          /\ kreq[p].lookup = "failed" =>
               /\ kreq[p].pc \in {"callGemini", "sleep", "saveToCache", "done"}
               /\ kreq[p].attempt >= 1
               /\ kreq[p].result.fromCache # "true"
          /\ kreq[p].pc = "done" /\ kreq[p].content # NoContent =>
               /\ kreq[p].result.success
               /\ kreq[p].result.content = kreq[p].content
               /\ kreq[p].result.fromCache = "false"
               /\ kreq[p].persisted \in {"saved", "failed"})
  /\ [][\A p \in Procs :
          kreq[p].pc = "saveToCache" /\ kreq'[p].persisted = "failed" => cache' = cache]_vars

\* both the lookup and the save of one request failed and it answered its text
C16_Witness ==
  \E p \in Procs :
    /\ KDone(p)
    /\ kreq[p].lookup = "failed" /\ FreshAtCall(p)
    /\ kreq[p].persisted = "failed"
    /\ kreq[p].result.success /\ kreq[p].result.fromCache = "false"

\* C17: the cache never holds two entries with one cacheKey; a request that
\* generated and saved (researching a pair a second time among them) leaves its
\* text in the one entry of its key.
C17_OneEntryPerKey ==
  /\ \A e1, e2 \in cache : e1.cacheKey = e2.cacheKey => e1 = e2
  /\ \A p \in Procs :
       KDone(p) /\ kreq[p].persisted = "saved" =>
         \A e \in EntriesOf(cache, p) : e.responseContent = kreq[p].content

\* the second research of a pair has replaced the text of the first
C17_Witness ==
  \E p \in Procs :
    /\ KDone(p) /\ kreq[p].input.service = "research"
    /\ StoredAtCall(p)
    /\ kreq[p].persisted = "saved"
    /\ kreq[p].content # kreq[p].atCall.responseContent
    /\ Cardinality(EntriesOf(cache, p)) = 1
    /\ Cardinality(cache) = 1


\* --------------------------------------------------------- key functions
\* two characters that are one letter in either case, or the same character
SameLetter(c, d) ==
  \/ c = d
  \/ \E k \in 1..Len(UpperCase) : {c, d} = {UpperCase[k], LowerCase[k]}

\* two strings that differ in letter case only
SameUpToCase(str1, str2) ==
  /\ Len(str1) = Len(str2)
  /\ \A i \in 1..Len(str1) : SameLetter(str1[i], str2[i])

\* a string without its leading and trailing blanks
RECURSIVE Trim(_)
Trim(str) ==
  IF str = <<>> THEN str
  ELSE IF Head(str) = " " THEN Trim(Tail(str))
  ELSE IF str[Len(str)] = " " THEN Trim(SubSeq(str, 1, Len(str) - 1))
  ELSE str

\* the two requests whose keys were derived
KeysDerived(service) == calc.fn = "cacheKey" /\ calc.args[1].service = service

SameTriple(a, b) ==
  /\ a.jobTitle = b.jobTitle
  /\ a.requirements = b.requirements
  /\ a.jobDescription = b.jobDescription

\* C18: the cache key depends on the logical input only: two extraction requests
\* with the same title, requirements and description derive the same key whatever
\* their jobId and forceRefresh, and two research requests whose item and level
\* differ in letter case only derive the same key.
C18_KeyOfLogicalInputOnly ==
  LET a == calc.args[1]
      b == calc.args[2]
  IN /\ KeysDerived("extraction") /\ SameTriple(a, b) => calc.out[1] = calc.out[2]
     /\ KeysDerived("research")
          /\ SameUpToCase(a.knowledgeItem, b.knowledgeItem)
          /\ SameUpToCase(a.proficiencyLevel, b.proficiencyLevel)
        => calc.out[1] = calc.out[2]

\* two research requests written in different letter case derived one key
C18_Witness ==
  /\ KeysDerived("research")
  /\ calc.args[1].knowledgeItem # calc.args[2].knowledgeItem
  /\ calc.args[1].proficiencyLevel # calc.args[2].proficiencyLevel
  /\ SameUpToCase(calc.args[1].knowledgeItem, calc.args[2].knowledgeItem)
  /\ SameUpToCase(calc.args[1].proficiencyLevel, calc.args[2].proficiencyLevel)
  /\ calc.out[1] = calc.out[2]

\* C19: two research requests whose item and level differ by leading or trailing
\* blanks only derive the same cache key.
C19_WhitespaceSameKey ==
  KeysDerived("research")
    /\ Trim(calc.args[1].knowledgeItem) = Trim(calc.args[2].knowledgeItem)
    /\ Trim(calc.args[1].proficiencyLevel) = Trim(calc.args[2].proficiencyLevel)
  => calc.out[1] = calc.out[2]

\* C29: cache keys are injective on logical inputs: two extraction triples that
\* differ in a field derive different keys, and two research pairs that differ
\* other than by letter case derive different keys, also when a field contains
\* the separator character.
C29_KeysInjective ==
  LET a == calc.args[1]
      b == calc.args[2]
  IN /\ KeysDerived("extraction") /\ ~SameTriple(a, b) => calc.out[1] # calc.out[2]
     /\ KeysDerived("research")
          /\ ~(/\ SameUpToCase(a.knowledgeItem, b.knowledgeItem)
               /\ SameUpToCase(a.proficiencyLevel, b.proficiencyLevel))
        => calc.out[1] # calc.out[2]

\* C20: extractJobIdFromKey undoes RedisKeys.job for every id, and answers null
\* for every key that isValidJobKey does not accept.
C20_ExtractInvertsJobKey ==
  /\ calc.fn = "RedisKeys.job" => calc.out[2] = JustString(calc.args[1])
  /\ calc.fn = "extractJobIdFromKey" /\ ~calc.out[2] => calc.out[1] = NullString

\* ------------------------------------------- not-found and storage errors
\* p's read of the primary record has just answered not-found
AnswersNotFound(p) ==
  /\ proc[p].pc \in {"u_getJob", "d_getJob"}
  /\ proc'[p].pc = "done"
  /\ proc'[p].result \in {"null", "false"}

\* C21: updateJob and deleteJob answer not-found (null / false) only when the
\* job's primary record is absent; a store failure while reading the record is
\* raised as an error, never answered as not-found.
C21_NotFoundOnlyWhenAbsent ==
  [][\A p \in Procs : AnswersNotFound(p) => jobKeys[proc[p].id] = NilString]_vars

\* ------------------------------------------------------------ pagination
\* the call of getAllJobs that was evaluated
PagedRun == calc.fn = "getAllJobs"
PageAsked == calc.args[1]
LimitAsked == calc.args[2]
PageOut == calc.out[1].pagination

\* C22: getAllJobs answers with currentPage = max(1, page) and itemsPerPage =
\* min(100, max(1, limit)), returns at most itemsPerPage jobs, reports totalPages =
\* ceil(totalItems / itemsPerPage), hasNextPage exactly when currentPage <
\* totalPages and hasPreviousPage exactly when currentPage > 1.
C22_PaginationClamped ==
  PagedRun =>
    /\ PageOut.currentPage = (IF PageAsked < 1 THEN 1 ELSE PageAsked)
    /\ PageOut.itemsPerPage =
         (IF LimitAsked < 1 THEN 1 ELSE IF LimitAsked > 100 THEN 100 ELSE LimitAsked)
    /\ Len(calc.out[1].jobs) <= PageOut.itemsPerPage
    /\ PageOut.totalPages * PageOut.itemsPerPage >= PageOut.totalItems
    /\ (PageOut.totalPages - 1) * PageOut.itemsPerPage < PageOut.totalItems
    /\ PageOut.hasNextPage <=> PageOut.currentPage < PageOut.totalPages
    /\ PageOut.hasPreviousPage <=> PageOut.currentPage > 1

\* a limit above 100 was asked of a collection of more than 100 jobs: a full first
\* page of 100 with a next page
C22_Witness ==
  /\ PagedRun
  /\ LimitAsked > 100
  /\ PageAsked < 1
  /\ Len(calc.out[1].jobs) = 100
  /\ PageOut.totalPages = 2
  /\ PageOut.hasNextPage /\ ~PageOut.hasPreviousPage

\* ------------------------------------------------------------ CSV import
\* an import that returned its result
ImportRun == calc.fn \in {"importJobsFromCSV", "bulkUpsertJobs"} /\ ~calc.out[1].thrown
ImportedRows == calc.args[1]
ImportOut == calc.out[1]

\* C23: an import of zero rows reports success = true with created = updated =
\* failed = 0; success is false only when there is at least one row and every row
\* failed.
C23_EmptyImportSucceeds ==
  ImportRun =>
    /\ ImportedRows = <<>> =>
         /\ ImportOut.success
         /\ ImportOut.created = 0 /\ ImportOut.updated = 0 /\ ImportOut.failed = 0
    /\ ~ImportOut.success =>
         Len(ImportedRows) >= 1 /\ ImportOut.failed = Len(ImportedRows)

\* --------------------------------------------------- the two job services
\* a sequence of operations was run on both services
DualRun == calc.fn = "bothServices"
RedisSide == calc.out[1]
MongoSide == calc.out[2]

\* C24: after every sequence of createJob, updateJob and deleteJob run on both
\* services, getJobById(id) returns the same job fields or not-found in both for
\* every id, and getJobsByStatus(s) returns the same set of jobs in both for every
\* status s.
C24_ServicesInterchangeable ==
  DualRun =>
    /\ \A id \in JobIds :
         redisGetJobById(RedisSide, id) = mongoGetJobById(MongoSide, id)
    /\ \A st \in Statuses :
         redisGetJobsByStatus(RedisSide, st) = mongoGetJobsByStatus(MongoSide, st)

\* ---------------------------------------------------- the frame of updateJob
\* the index sets id is a member of
MembershipOf(all, byStatus, id) ==
  [inAll |-> id \in all, statuses |-> { st \in Statuses : id \in byStatus[st] }]

\* p's call takes a step
StepsOf(p, op) == proc[p].op = op /\ InFlight(p) /\ proc'[p] # proc[p]

\* C25: a successful updateJob(id, partial) leaves every field absent from partial
\* (other than updatedAt) as it was before the call and sets every field present in
\* partial to the given value; the primary record and the index membership of
\* every other job are unchanged.
C25_UpdateFrame ==
  /\ [](\A p \in Procs :
          Returned(p, "update", "job") =>
            LET before == proc[p].existingJob
                after == getJobById(proc[p].id)
                partial == proc[p].data
            IN /\ after.id = before.id /\ after.createdAt = before.createdAt
               /\ after.status = (IF partial.status = Absent THEN before.status
                                  ELSE partial.status)
               /\ after.notes = (IF partial.notes = Absent THEN before.notes
                                 ELSE partial.notes))
  /\ [][\A p \in Procs :
          StepsOf(p, "update") =>
            \A other \in JobIds \ {proc[p].id} :
              /\ jobKeys'[other] = jobKeys[other]
              /\ MembershipOf(jobsAll', jobsByStatus', other)
                   = MembershipOf(jobsAll, jobsByStatus, other)]_vars

\* an update of the notes alone has returned for a job that is not Pending, with
\* another job stored
C25_Witness ==
  \E p \in Procs :
    /\ Returned(p, "update", "job")
    /\ proc[p].data.status = Absent /\ proc[p].data.notes # Absent
    /\ proc[p].data.notes # proc[p].existingJob.notes
    /\ proc[p].existingJob.status = "Hired"
    /\ \E other \in LiveIds : other # proc[p].id

\* the partial of p's updateJob omits the status or gives the job's current one
StatusKept(p) ==
  \/ proc[p].data.status = Absent
  \/ proc[p].data.status =
       (IF proc[p].pc = "u_getJob" THEN getJobById(proc[p].id).status
        ELSE proc[p].existingJob.status)

\* C26: an updateJob whose partial omits status or gives the job's current status
\* performs no set operation: jobs:all and the four status sets are the same
\* before and after every step of the call.
C26_NoIndexWorkWithoutStatusChange ==
  /\ [](\A p \in Procs :
          (Returned(p, "update", "job") /\ StatusKept(p)) => ~proc[p].statusChanged)
  /\ [][\A p \in Procs :
          (StepsOf(p, "update") /\ StatusKept(p)) =>
            /\ jobsAll' = jobsAll
            /\ jobsByStatus' = jobsByStatus]_vars

\* an update that names the job's current status has returned
C26_Witness ==
  \E p \in Procs :
    /\ Returned(p, "update", "job")
    /\ proc[p].data.status = proc[p].existingJob.status
    /\ proc[p].id \in jobsByStatus[proc[p].data.status]

\* ------------------------------------------------- operations on a missing id
\* the id is a member of an index set
Indexed(id) == id \in jobsAll \/ \E st \in Statuses : id \in jobsByStatus[st]

\* updateJob or deleteJob is called by p on an id that has no primary record
CalledOnMissing(p) ==
  /\ proc[p].pc \notin {"u_getJob", "d_getJob"}
  /\ proc'[p].pc \in {"u_getJob", "d_getJob"}
  /\ jobKeys[proc'[p].id] = NilString

\* p's updateJob or deleteJob reads the primary record, and there is none
ReadsMissing(p) ==
  /\ proc[p].pc \in {"u_getJob", "d_getJob"}
  /\ proc'[p] # proc[p]
  /\ jobKeys[proc[p].id] = NilString

\* C27: updateJob and deleteJob on an id with no primary record return not-found
\* (null / false) and change nothing: no primary record is created and no index
\* set is modified, also when the id is a stale member of an index set.
C27_MissingIdChangesNothing ==
  [][\A p \in Procs :
       /\ (CalledOnMissing(p) \/ ReadsMissing(p)) =>
            /\ jobKeys' = jobKeys
            /\ jobsAll' = jobsAll
            /\ jobsByStatus' = jobsByStatus
       /\ ReadsMissing(p) =>
            /\ proc'[p].pc = "done"
            /\ proc'[p].result = (IF proc[p].op = "update" THEN "null" ELSE "false")]_vars

\* updateJob has answered null for an id that jobs:all still lists
C27_Witness ==
  \E p \in Procs :
    /\ Returned(p, "update", "null")
    /\ proc[p].data.status # Absent
    /\ proc[p].id \in jobsAll
    /\ jobKeys[proc[p].id] = NilString

\* ------------------------------------------------ listings over a drifted index
\* C28: whatever the index contains, every job getJobsByStatus(s) returns has a
\* primary record whose status is s; the members of the set whose record is
\* missing or has another status are dropped, and no error is raised.
C28_ListingDropsDriftedIds ==
  \A st \in Statuses :
    /\ \A j \in getJobsByStatus(st) :
         /\ j # NullJob
         /\ j.status = st
         /\ getJobById(j.id) = j
    /\ IdsOf(getJobsByStatus(st)) =
         { id \in jobsByStatus[st] : id \in LiveIds /\ StoredStatus(id) = st }

\* one status set lists a deleted job, or a job that has another status
C28_Witness ==
  /\ Quiescent
  /\ \E st \in Statuses : \E id \in jobsByStatus[st] :
       /\ id \in LiveIds /\ StoredStatus(id) # st
       /\ id \notin IdsOf(getJobsByStatus(st))
       /\ id \notin jobsByStatus[StoredStatus(id)]

\* ------------------------------------------------ deletion under concurrency
\* C30: once deleteJob(id) has returned true, no operation on the same id that was
\* in flight at that time makes the record exist again; when all operations have
\* finished getJobById(id) returns null and id is a member of no index set.
C30_DeletionFinalUnderConcurrency ==
  \A id \in deleted :
    /\ jobKeys[id] = NilString
    /\ Quiescent => getJobById(id) = NullJob /\ ~Indexed(id)

====
